---- MODULE Spec2Model ----
(***************************************************************************)
(* Model of the autonomous verification-and-escalation loop of             *)
(* claude-prompts-mcp: the Stop hook (hooks/ralph-stop.py), the            *)
(* supervised spawn with retry and circuit breaker (hooks/lib/             *)
(* cli_spawner.py) and the backoff computation.                            *)
(*                                                                         *)
(* Six specifications share the module:                                    *)
(*   Spec        the Stop-hook controller (main, spawn_isolated_iteration, *)
(*               spawn_claude_print) with the hooks of spawned instances   *)
(*               and the PostToolUse hook ralph-context-tracker.py         *)
(*   SpecFault   the same controller on a file system whose writes fail    *)
(*   SpecSpawn   spawn_claude_print_async / spawn_batch_async with the     *)
(*               process-wide CircuitBreaker and a clock                   *)
(*   SpecBackoff _calculate_backoff_delay on drawn inputs                  *)
(*   SpecLedger  SessionTrackers of two processes on one session ledger    *)
(*   SpecDoc     render_task_file / parse_task_file on drawn TaskFiles      *)
(***************************************************************************)
EXTENDS Integers, Sequences, FiniteSets, TLC

\* ---------------------------------------------------------------- bounds

\* largest maxIterations written into verify-active.json
MaxN == 3
\* largest verification.inContextAttempts of config.json
MaxThreshold == 2
\* deepest chain of nested spawned instances explored
MaxDepth == 2

\* last tick of the clock
MaxTime == 3
\* cap on CircuitBreaker._failure_count
MaxFailureCount == 3
\* largest RetryConfig.max_retries
MaxRetries == 1
\* largest CircuitBreakerConfig.failure_threshold
MaxFailureThreshold == 2
\* largest RetryConfig.base_delay_seconds and exponential_base
MaxBase == 3
\* largest RetryConfig.max_delay_seconds
MaxCap == 6
\* largest attempt index handed to _calculate_backoff_delay
MaxAttempt == 3

\* calls of set_goal / record_iteration / record_file_change explored
MaxOps == 3
\* most lines of a section text of a TaskFile
MaxLines == 3
\* failed file writes drawn within one loop activation
MaxFaults == 1

VARIABLES
    verify_state,  \* runtime-state/verify-active.json
    config,        \* config of the state file and of server/config.json
    frames,        \* Stop-hook invocations blocked inside spawn_claude_print
    ledger,        \* number of IterationRecords in the session ledgers of
                   \*   this activation
    session,       \* where verify-active.json carries its sessionId, and
                   \*   history: the ids resolved in this activation
    execs,         \* history: verification commands executed in this activation
    allFailed,     \* history: every one of them failed
    blocks,        \* history: block decisions returned in this activation
    faults,        \* history: failed writes drawn in this activation
    ev,            \* history: what the last step did
    cb,            \* _circuit_breaker, the module-level CircuitBreaker
    cfg,           \* RetryConfig, CircuitBreakerConfig, max_concurrent
    now,           \* time.time()
    tasks,         \* the calls of spawn_claude_print_async of a batch
    consec,        \* history: failures recorded since the last success
    probing,       \* history: calls admitted in this half-open period,
                   \*          outcome not yet recorded
    backoff,       \* one evaluation of _calculate_backoff_delay
    store,         \* ralph-sessions/<id>.json and the SessionTrackers on it
    taskdoc        \* a TaskFile on its way through render, parse, render

ctlVars == <<verify_state, config, frames, ledger, session, execs, allFailed,
            blocks, faults, ev>>
spawnVars == <<cb, cfg, now, tasks, consec, probing>>
vars == <<verify_state, config, frames, ledger, session, execs, allFailed,
          blocks, faults, ev,
          cb, cfg, now, tasks, consec, probing, backoff, store, taskdoc>>

\* ------------------------------------------------- verification state file

NoState == [present |-> FALSE, iteration |-> 0, lastResult |-> "none"]

\* outcomes of run_verification: exit 0, non-zero exit, TimeoutExpired
VerifyResults == {"pass", "fail", "timeout"}

run_verification_passed_never(vr) == FALSE
run_verification_passed(vr) == vr = "pass"

load_verify_state(file) == file.present

save_verify_state(iteration, result) ==
    [present |-> TRUE, iteration |-> iteration, lastResult |-> result]

clear_verify_state == NoState

\* ------------------------------------------------------ session identity

\* where the orchestrator put the sessionId of verify-active.json: nowhere,
\* under "state", or at the top level
SessionPlacements == {"none", "state", "top"}

\* uuid.uuid4().hex[:8] of two evaluations
Uuids == {"ralph-a", "ralph-b"}

NoSession == [where |-> "none", used |-> {}, tracked |-> {}]

\* ensure_ralph_session_id: state.sessionId or the top-level sessionId, else
\* a fresh id, which is exported to os.environ and never written to the file
ensure_ralph_session_id(where, uuid) ==
    IF where \in {"state", "top"} THEN "given" ELSE uuid

\* get_active_ralph_session of ralph-context-tracker.py: the top-level
\* sessionId of the state file only
get_active_ralph_session(file, where) ==
    IF file.present /\ where = "top" THEN "given" ELSE "none"

\* ------------------------------------------------------ spawn_claude_print

\* what the external process does once subprocess.run is entered
LaunchOutcomes == {"exit0", "nonzero", "timeout", "error"}

\* _get_spawn_env: the environment handed to a spawned process carries
\* RALPH_SPAWNED whatever the environment of the spawning process
get_spawn_env_unmarked(env) == env
get_spawn_env(env) == TRUE

\* spawn_claude_print: one subprocess.run, no retry loop, no circuit breaker.
\* consulted/recorded say whether can_execute / record_* were called.
spawn_claude_print_timeout_ok(outcome) ==
    [success      |-> outcome \in {"exit0", "timeout"},
     timed_out    |-> outcome = "timeout",
     launched     |-> outcome # "notfound",
     retries_used |-> 0,
     attempts     |-> 1,
     consulted    |-> FALSE,
     recorded     |-> FALSE]
spawn_claude_print(outcome) ==
    [success      |-> outcome = "exit0",
     timed_out    |-> outcome = "timeout",
     launched     |-> outcome # "notfound",
     retries_used |-> 0,
     attempts     |-> 1,
     consulted    |-> FALSE,
     recorded     |-> FALSE]

NoSpawn ==
    [success |-> FALSE, timed_out |-> FALSE, launched |-> FALSE,
     retries_used |-> 0, attempts |-> 0, consulted |-> FALSE,
     recorded |-> FALSE]

\* ------------------------------------------------------------- controller

\* main: the loop-prevention flag of the hook input
reentry_guard_off(stop_hook_active) == FALSE
reentry_guard(stop_hook_active) == stop_hook_active

\* main: iteration limit check
limit_reached_late(iteration, max_iterations) ==
    iteration > max_iterations + 1
limit_reached(iteration, max_iterations) == iteration > max_iterations

\* main: isolation enabled and past the in-context threshold
wants_isolation_always(enabled, iteration, threshold) ==
    iteration > threshold
wants_isolation(enabled, iteration, threshold) ==
    enabled /\ iteration > threshold

\* main: os.environ.get("RALPH_SPAWNED")
already_spawned(env) == env

\* spawn_isolated_iteration: the returned "passed" is the re-run's, never
\* the spawned instance's own report
isolated_passed_trusting(spawn_result, verify_result) == spawn_result.success
isolated_passed(spawn_result, verify_result) ==
    run_verification_passed(verify_result)

\* the environment marker of the process at nesting depth Len(frames)
CurrentEnv == IF frames = <<>> THEN FALSE ELSE frames[Len(frames)].childEnv

EventAt(kind, outcome, decision, runs, hookActive, first, rerun, sr, env, depth) ==
    [kind |-> kind, outcome |-> outcome, decision |-> decision,
     runs |-> runs, hook_active |-> hookActive, spawned |-> env,
     depth |-> depth, first |-> first, rerun |-> rerun, spawn |-> sr,
     pre |-> verify_state, preLedger |-> ledger]

Event(kind, outcome, decision, runs, hookActive, first, rerun, sr) ==
    EventAt(kind, outcome, decision, runs, hookActive, first, rerun, sr,
            CurrentEnv, Len(frames))

\* spawn_isolated_iteration: tracker.record_iteration persists one more
\* record unless SessionTracker._save fails, which it swallows
tracker_saved(records, exc) ==
    IF exc = "ledger_write" THEN records ELSE records + 1

\* main: session_id = ensure_ralph_session_id(verify_state)
Resolve(uuid) ==
    session' = [session EXCEPT
                  !.used = @ \cup {ensure_ralph_session_id(session.where, uuid)}]

Count(vr1, vr2) ==
    /\ execs' = execs + (IF vr1 = "none" THEN 0 ELSE 1)
                      + (IF vr2 = "none" THEN 0 ELSE 1)
    /\ allFailed' = (allFailed /\ vr1 # "pass" /\ vr2 # "pass")

\* main after a failed isolated attempt: state["iteration"] = iteration + 1,
\* the spawn counted as an iteration
spawn_iteration_same(iteration) == iteration
spawn_iteration(iteration) == iteration + 1

\* spawn_isolated_iteration after spawn_claude_print has returned, and the
\* branch of main that follows it
AfterSpawn(kind, iteration, first, hookActive, sr, vr, runs, env, depth) ==
    IF isolated_passed(sr, vr)
    THEN /\ verify_state' = clear_verify_state
         /\ UNCHANGED blocks
         /\ ev' = EventAt(kind, "passed_isolated", "allow", runs, hookActive,
                          first, vr, sr, env, depth)
    ELSE /\ verify_state' = save_verify_state(spawn_iteration(iteration), first)
         /\ blocks' = blocks + 1
         /\ ev' = EventAt(kind, "block_isolated", "block", runs, hookActive,
                          first, vr, sr, env, depth)

\* the external orchestrator writes verify-active.json and so activates a loop
Activate ==
    /\ frames = <<>>
    /\ ~verify_state.present
    /\ verify_state' = save_verify_state(0, "none")
    /\ \E where \in SessionPlacements :
          session' = [NoSession EXCEPT !.where = where]
    /\ ledger' = 0
    /\ execs' = 0
    /\ allFailed' = TRUE
    /\ blocks' = 0
    /\ faults' = 0
    /\ ev' = Event("activate", "none", "none", 0, FALSE, "none", "none", NoSpawn)
    /\ UNCHANGED <<config, frames>>
    /\ UNCHANGED <<spawnVars, backoff, store, taskdoc>>

\* main of ralph-stop.py, run by the process at the current nesting depth, up
\* to its exit or to the point where it blocks inside spawn_claude_print
main(stop_hook_active, vr, exc, launch, uuid) ==
    LET iteration == verify_state.iteration + 1 IN
    IF reentry_guard(stop_hook_active)
    THEN /\ ev' = Event("stop", "guard", "allow", 0, stop_hook_active,
                        "none", "none", NoSpawn)
         /\ UNCHANGED <<verify_state, config, frames, ledger, session, execs,
                        allFailed, blocks>>
    ELSE IF ~load_verify_state(verify_state)
    THEN /\ ev' = Event("stop", "noop", "allow", 0, stop_hook_active,
                        "none", "none", NoSpawn)
         /\ UNCHANGED <<verify_state, config, frames, ledger, session, execs,
                        allFailed, blocks>>
    ELSE IF limit_reached(iteration, config.maxIterations)
    THEN /\ verify_state' = clear_verify_state
         /\ ev' = Event("stop", "exhausted", "allow", 0, stop_hook_active,
                        "none", "none", NoSpawn)
         /\ Resolve(uuid)
         /\ UNCHANGED <<config, frames, ledger, execs, allFailed, blocks>>
    ELSE IF exc = "write"
    THEN \* save_verify_state raises after the verification has run: main
         \* ends in the handler of __main__, which exits 0 with no decision;
         \* the file is as it was, or truncated and so unreadable
         /\ verify_state' \in {verify_state, NoState}
         /\ Count(vr, "none")
         /\ ev' = Event("stop", "hook_error", "allow", 1, stop_hook_active,
                        vr, "none", NoSpawn)
         /\ Resolve(uuid)
         /\ UNCHANGED <<config, frames, ledger, blocks>>
    ELSE IF run_verification_passed(vr)
    THEN /\ verify_state' = clear_verify_state
         /\ Count(vr, "none")
         /\ ev' = Event("stop", "passed", "allow", 1, stop_hook_active,
                        vr, "none", NoSpawn)
         /\ Resolve(uuid)
         /\ UNCHANGED <<config, frames, ledger, blocks>>
    ELSE IF ~wants_isolation(config.enabled, iteration, config.inContextThreshold)
    THEN /\ verify_state' = save_verify_state(iteration, vr)
         /\ Count(vr, "none")
         /\ ev' = Event("stop", "block_incontext", "block", 1, stop_hook_active,
                        vr, "none", NoSpawn)
         /\ blocks' = blocks + 1
         /\ Resolve(uuid)
         /\ UNCHANGED <<config, frames, ledger>>
    ELSE IF already_spawned(CurrentEnv)
    THEN /\ verify_state' = save_verify_state(iteration, vr)
         /\ Count(vr, "none")
         /\ ev' = Event("stop", "block_spawned", "block", 1, stop_hook_active,
                        vr, "none", NoSpawn)
         /\ blocks' = blocks + 1
         /\ Resolve(uuid)
         /\ UNCHANGED <<config, frames, ledger>>
    ELSE IF exc = "import"
    THEN \* ImportError raised by the imports of spawn_isolated_iteration
         /\ verify_state' = save_verify_state(iteration, vr)
         /\ Count(vr, "none")
         /\ ev' = Event("stop", "block_fallback", "block", 1, stop_hook_active,
                        vr, "none", NoSpawn)
         /\ blocks' = blocks + 1
         /\ Resolve(uuid)
         /\ UNCHANGED <<config, frames, ledger>>
    ELSE IF exc = "task"
    THEN \* an exception of create_task_file, after record_iteration
         /\ verify_state' = save_verify_state(iteration, vr)
         /\ ledger' = ledger + 1
         /\ Count(vr, "none")
         /\ ev' = Event("stop", "block_fallback", "block", 1, stop_hook_active,
                        vr, "none", NoSpawn)
         /\ blocks' = blocks + 1
         /\ Resolve(uuid)
         /\ UNCHANGED <<config, frames>>
    ELSE IF launch = "notfound"
    THEN \* FileNotFoundError: no process, the re-run follows at once
         \E vr2 \in VerifyResults :
            /\ ledger' = tracker_saved(ledger, exc)
            /\ Count(vr, vr2)
            /\ AfterSpawn("stop", iteration, vr, stop_hook_active,
                          spawn_claude_print("notfound"), vr2, 2,
                          CurrentEnv, Len(frames))
            /\ Resolve(uuid)
            /\ UNCHANGED <<config, frames>>
    ELSE \* the process is launched; main blocks until it exits
         /\ Len(frames) < MaxDepth
         /\ verify_state' = save_verify_state(iteration, vr)
         /\ ledger' = tracker_saved(ledger, exc)
         /\ Count(vr, "none")
         /\ frames' = Append(frames,
                [iteration |-> iteration, first |-> vr,
                 env |-> CurrentEnv, childEnv |-> get_spawn_env(CurrentEnv),
                 hook_active |-> stop_hook_active])
         /\ ev' = Event("stop", "escalating", "pending", 1, stop_hook_active,
                        vr, "none", NoSpawn)
         /\ Resolve(uuid)
         /\ UNCHANGED <<config, blocks>>

\* one invocation of the Stop hook by the host of the deepest live process
StopHook(stop_hook_active, vr, exc, launch, uuid) ==
    /\ main(stop_hook_active, vr, exc, launch, uuid)
    /\ IF exc \in {"write", "ledger_write"}
       THEN faults < MaxFaults /\ faults' = faults + 1
       ELSE UNCHANGED faults
    /\ UNCHANGED <<spawnVars, backoff, store, taskdoc>>

\* the deepest spawned process exits (or is timed out); the invocation that
\* launched it resumes in spawn_isolated_iteration, re-runs the verification
\* command and main decides
SpawnReturn(outcome, vr2) ==
    /\ frames # <<>>
    /\ LET f == frames[Len(frames)] IN
       /\ frames' = SubSeq(frames, 1, Len(frames) - 1)
       /\ Count("none", vr2)
       /\ AfterSpawn("return", f.iteration, f.first, f.hook_active,
                     spawn_claude_print(outcome), vr2, 1,
                     f.env, Len(frames) - 1)
    /\ UNCHANGED <<config, ledger, session, faults>>
    /\ UNCHANGED <<spawnVars, backoff, store, taskdoc>>

\* main of ralph-context-tracker.py after a tracked tool call, while a state
\* file exists: the session it resolves; without one it exits at once
ContextTracker ==
    /\ verify_state.present
    /\ session' = [session EXCEPT
          !.tracked = @ \cup {get_active_ralph_session(verify_state,
                                                       session.where)}]
    /\ UNCHANGED <<verify_state, config, frames, ledger, execs, allFailed,
                   blocks, faults, ev>>
    /\ UNCHANGED <<spawnVars, backoff, store, taskdoc>>

CtlInit ==
    /\ verify_state = NoState
    /\ config \in [maxIterations : 1..MaxN, enabled : BOOLEAN,
                   inContextThreshold : 0..MaxThreshold]
    /\ frames = <<>>
    /\ ledger = 0
    /\ session = NoSession
    /\ execs = 0
    /\ allFailed = TRUE
    /\ blocks = 0
    /\ faults = 0
    /\ ev = [kind |-> "init", outcome |-> "none", decision |-> "none",
             runs |-> 0, hook_active |-> FALSE, spawned |-> FALSE,
             depth |-> 0, first |-> "none", rerun |-> "none",
             spawn |-> NoSpawn, pre |-> NoState, preLedger |-> 0]

Next ==
    \/ Activate
    \/ \E a \in BOOLEAN, vr \in VerifyResults,
          exc \in {"none", "import", "task"},
          launch \in {"notfound", "launched"}, uuid \in Uuids :
            StopHook(a, vr, exc, launch, uuid)
    \/ \E outcome \in LaunchOutcomes, vr2 \in VerifyResults :
            SpawnReturn(outcome, vr2)
    \/ ContextTracker

\* the exceptions drawn for an invocation: none, ImportError of the lib
\* imports, an exception of create_task_file, and in NextFault the failed
\* writes: "write" of verify-active.json in main, "ledger_write" of the ledger
Faults == {"none", "import", "task", "write", "ledger_write"}

\* the controller on a file system whose writes can fail
NextFault ==
    \/ Activate
    \/ \E a \in BOOLEAN, vr \in VerifyResults, exc \in Faults,
          launch \in {"notfound", "launched"}, uuid \in Uuids :
            StopHook(a, vr, exc, launch, uuid)
    \/ \E outcome \in LaunchOutcomes, vr2 \in VerifyResults :
            SpawnReturn(outcome, vr2)
    \/ ContextTracker

\* --------------------------------------------------------- CircuitBreaker

\* the calls of spawn_claude_print_async of one batch, in submission order
Tasks == {1, 2}

NewBreaker ==
    [state |-> "closed", failure_count |-> 0, last_failure_time |-> 0,
     half_open_calls |-> 0]

\* CircuitBreaker.state: the lazy OPEN -> HALF_OPEN transition of a query
state_query_early(b, t, recovery_timeout_seconds) ==
    IF b.state = "open"
    THEN [b EXCEPT !.state = "half_open", !.half_open_calls = 0]
    ELSE b
state_query(b, t, recovery_timeout_seconds) ==
    IF b.state = "open" /\ t - b.last_failure_time >= recovery_timeout_seconds
    THEN [b EXCEPT !.state = "half_open", !.half_open_calls = 0]
    ELSE b

\* CircuitBreaker.can_execute, on the breaker as the state query left it
can_execute(b, half_open_max_calls) ==
    IF b.state = "closed" THEN TRUE
    ELSE IF b.state = "half_open" THEN b.half_open_calls < half_open_max_calls
    ELSE FALSE

\* CircuitBreaker.record_success
record_success_keeps_count(b, half_open_max_calls) ==
    IF b.state = "half_open"
    THEN IF b.half_open_calls + 1 >= half_open_max_calls
         THEN [b EXCEPT !.half_open_calls = b.half_open_calls + 1,
                        !.state = "closed", !.failure_count = 0]
         ELSE [b EXCEPT !.half_open_calls = b.half_open_calls + 1]
    ELSE b
record_success_first_closes(b, half_open_max_calls) ==
    IF b.state = "half_open"
    THEN [b EXCEPT !.half_open_calls = b.half_open_calls + 1,
                   !.state = "closed", !.failure_count = 0]
    ELSE IF b.state = "closed"
    THEN [b EXCEPT !.failure_count = 0]
    ELSE b
record_success(b, half_open_max_calls) ==
    IF b.state = "half_open"
    THEN IF b.half_open_calls + 1 >= half_open_max_calls
         THEN [b EXCEPT !.half_open_calls = b.half_open_calls + 1,
                        !.state = "closed", !.failure_count = 0]
         ELSE [b EXCEPT !.half_open_calls = b.half_open_calls + 1]
    ELSE IF b.state = "closed"
    THEN [b EXCEPT !.failure_count = 0]
    ELSE b

\* CircuitBreaker.record_failure
record_failure_stays_half_open(b, t, failure_threshold) ==
    LET c == [b EXCEPT !.failure_count = b.failure_count + 1,
                       !.last_failure_time = t]
    IN  IF c.state = "half_open" THEN c
        ELSE IF c.failure_count >= failure_threshold
        THEN [c EXCEPT !.state = "open"]
        ELSE c
record_failure_one_late(b, t, failure_threshold) ==
    LET c == [b EXCEPT !.failure_count = b.failure_count + 1,
                       !.last_failure_time = t]
    IN  IF c.state = "half_open" THEN [c EXCEPT !.state = "open"]
        ELSE IF c.failure_count > failure_threshold
        THEN [c EXCEPT !.state = "open"]
        ELSE c
record_failure(b, t, failure_threshold) ==
    LET c == [b EXCEPT !.failure_count = b.failure_count + 1,
                       !.last_failure_time = t]
    IN  IF c.state = "half_open" THEN [c EXCEPT !.state = "open"]
        ELSE IF c.failure_count >= failure_threshold
        THEN [c EXCEPT !.state = "open"]
        ELSE c

\* ------------------------------------------------ spawn_claude_print_async

\* proc: the process of the latest attempt: none yet, running, killed
\* (process.kill() sent, exit not yet awaited) or exited
NewTask ==
    [pc |-> "queued", attempt |-> 0, retries_used |-> 0, launches |-> 0,
     proc |-> "none", last |-> "none", result |-> "none"]

\* the SpawnResult returned for each way a call ends; "stdout" stands for the
\* decoded output of the process
async_result(kind) ==
    [success   |-> kind = "success",
     timed_out |-> kind = "timeout",
     output    |-> IF kind \in {"success", "nonzero"} THEN "stdout" ELSE ""]

\* the timeout handler: process.kill() then "await process.wait()"
reap_not_awaited(proc) == proc
reap(proc) == "exited"

\* spawn_batch_async: asyncio.Semaphore(max_concurrent) has a free slot
semaphore_free_always(active, max_concurrent) == TRUE
semaphore_free(active, max_concurrent) == active < max_concurrent

\* the retry loop: "if result.success or attempt >= retry_config.max_retries"
returns_now_one_more(success, attempt, max_retries) ==
    success \/ attempt > max_retries
returns_now(success, attempt, max_retries) ==
    success \/ attempt >= max_retries

Active ==
    {t \in Tasks : tasks[t].pc \in {"ready", "running", "killing", "sleeping"}}

Failed(b) == /\ consec' = consec + 1
             /\ b.failure_count < MaxFailureCount

\* a call leaves the retry loop with a failure, or backs off for a retry
FailOrRetry(t, kind, b, proc) ==
    /\ Failed(b)
    /\ cb' = record_failure(b, now, cfg.failure_threshold)
    /\ probing' = IF cb'.state = b.state THEN probing \ {t} ELSE {}
    /\ IF returns_now(FALSE, tasks[t].attempt, cfg.max_retries)
       THEN tasks' = [tasks EXCEPT ![t].pc = "done", ![t].result = kind,
                                   ![t].last = kind, ![t].proc = proc]
       ELSE tasks' = [tasks EXCEPT ![t].pc = "sleeping", ![t].last = kind,
                                   ![t].retries_used = @ + 1,
                                   ![t].proc = proc]

\* spawn_batch_async: the semaphore admits the calls in submission order
Admit(t) ==
    /\ tasks[t].pc = "queued"
    /\ \A u \in Tasks : u < t => tasks[u].pc # "queued"
    /\ semaphore_free(Cardinality(Active), cfg.max_concurrent)
    /\ tasks' = [tasks EXCEPT ![t].pc = "ready"]
    /\ UNCHANGED <<cb, cfg, now, consec, probing>>
    /\ UNCHANGED <<ctlVars, backoff, store, taskdoc>>

\* top of the retry loop up to the first suspension: the circuit breaker
\* check and create_subprocess_exec
Begin(t, launch) ==
    /\ tasks[t].pc = "ready"
    /\ LET b == state_query(cb, now, cfg.recovery_timeout_seconds)
           p == IF b.state = cb.state THEN probing ELSE {}
       IN
       IF ~can_execute(b, cfg.half_open_max_calls)
       THEN /\ cb' = b
            /\ probing' = p
            /\ tasks' = [tasks EXCEPT ![t].pc = "done",
                                      ![t].result = "circuit_open"]
            /\ UNCHANGED <<consec>>
       ELSE IF launch = "notfound"
       THEN \* FileNotFoundError: returned at once, never retried
            /\ Failed(b)
            /\ cb' = record_failure(b, now, cfg.failure_threshold)
            /\ probing' = IF cb'.state = b.state THEN p ELSE {}
            /\ tasks' = [tasks EXCEPT ![t].pc = "done",
                                      ![t].result = "notfound",
                                      ![t].last = "notfound"]
       ELSE IF launch = "oserror"
       THEN \* any other exception of create_subprocess_exec: retried
            /\ probing = p
            /\ FailOrRetry(t, "exception", b, tasks[t].proc)
       ELSE /\ cb' = b
            /\ probing' = IF b.state = "half_open" THEN p \cup {t} ELSE p
            /\ tasks' = [tasks EXCEPT ![t].pc = "running",
                                      ![t].launches = @ + 1,
                                      ![t].proc = "running"]
            /\ UNCHANGED <<consec>>
    /\ UNCHANGED <<cfg, now>>
    /\ UNCHANGED <<ctlVars, backoff, store, taskdoc>>

\* wait_for(process.communicate()) is over: the process has exited, or the
\* timeout fired and the handler sent process.kill() and awaits the exit, or
\* an exception other than TimeoutError came out, which no handler reaps
Finish(t, outcome) ==
    /\ tasks[t].pc = "running"
    /\ IF outcome = "exit0"
       THEN /\ cb' = record_success(cb, cfg.half_open_max_calls)
            /\ consec' = 0
            /\ probing' = IF cb'.state = cb.state THEN probing \ {t} ELSE {}
            /\ tasks' = [tasks EXCEPT ![t].pc = "done", ![t].last = "exit0",
                                      ![t].result = "success",
                                      ![t].proc = "exited"]
       ELSE IF outcome = "timeout"
       THEN /\ tasks' = [tasks EXCEPT ![t].pc = "killing",
                                      ![t].proc = "killed"]
            /\ UNCHANGED <<cb, consec, probing>>
       ELSE IF outcome = "nonzero"
       THEN FailOrRetry(t, outcome, cb, "exited")
       ELSE FailOrRetry(t, outcome, cb, tasks[t].proc)
    /\ UNCHANGED <<cfg, now>>
    /\ UNCHANGED <<ctlVars, backoff, store, taskdoc>>

\* "await process.wait()" of the timeout handler returns; the failure is
\* recorded and the attempt ends
Reaped(t) ==
    /\ tasks[t].pc = "killing"
    /\ FailOrRetry(t, "timeout", cb, reap(tasks[t].proc))
    /\ UNCHANGED <<cfg, now>>
    /\ UNCHANGED <<ctlVars, backoff, store, taskdoc>>

\* asyncio.sleep(delay) is over: next attempt of the for loop
Wake(t) ==
    /\ tasks[t].pc = "sleeping"
    /\ IF tasks[t].attempt + 1 > cfg.max_retries
       THEN tasks' = [tasks EXCEPT ![t].pc = "done",
                                   ![t].result = "max_retries_exceeded"]
       ELSE tasks' = [tasks EXCEPT ![t].pc = "ready", ![t].attempt = @ + 1]
    /\ UNCHANGED <<cb, cfg, now, consec, probing>>
    /\ UNCHANGED <<ctlVars, backoff, store, taskdoc>>

Tick ==
    /\ now < MaxTime
    /\ now' = now + 1
    /\ UNCHANGED <<cb, cfg, tasks, consec, probing>>
    /\ UNCHANGED <<ctlVars, backoff, store, taskdoc>>

\* the batch is over; the supervising process starts another one
NewBatch ==
    /\ \A t \in Tasks : tasks[t].pc = "done"
    /\ tasks' = [t \in Tasks |-> NewTask]
    /\ UNCHANGED <<cb, cfg, now, consec, probing>>
    /\ UNCHANGED <<ctlVars, backoff, store, taskdoc>>

SpawnIdle ==
    /\ cb = NewBreaker
    /\ cfg = [max_retries |-> 0, failure_threshold |-> 1,
              recovery_timeout_seconds |-> 1, half_open_max_calls |-> 1,
              max_concurrent |-> 1]
    /\ now = 0
    /\ tasks = [t \in Tasks |-> NewTask]
    /\ consec = 0
    /\ probing = {}

SpawnInit ==
    /\ cb = NewBreaker
    /\ cfg \in [max_retries : 0..MaxRetries,
                failure_threshold : 1..MaxFailureThreshold,
                recovery_timeout_seconds : {1, 2},
                half_open_max_calls : {1, 2},
                max_concurrent : {1, 2}]
    /\ now = 0
    /\ tasks = [t \in Tasks |-> NewTask]
    /\ consec = 0
    /\ probing = {}

NextSpawn ==
    \/ \E t \in Tasks : Admit(t)
    \/ \E t \in Tasks, launch \in {"started", "notfound", "oserror"} :
          Begin(t, launch)
    \/ \E t \in Tasks, outcome \in {"exit0", "nonzero", "timeout", "exception"} :
          Finish(t, outcome)
    \/ \E t \in Tasks : Reaped(t)
    \/ \E t \in Tasks : Wake(t)
    \/ Tick
    \/ NewBatch

\* ------------------------------------------------ _calculate_backoff_delay

RECURSIVE Pow(_, _)
Pow(b, e) == IF e = 0 THEN 1 ELSE b * Pow(b, e - 1)

Min(a, b) == IF a < b THEN a ELSE b
Max(a, b) == IF a > b THEN a ELSE b

\* delay before the jitter: min(base * exponential_base ** attempt, cap)
capped_delay_uncapped(attempt, c) ==
    c.base_delay_seconds * Pow(c.exponential_base, attempt)
capped_delay(attempt, c) ==
    Min(c.base_delay_seconds * Pow(c.exponential_base, attempt),
        c.max_delay_seconds)

\* _calculate_backoff_delay in quarter seconds. random.uniform(-d/4, d/4) is
\* the draw j of -d..d quarter seconds.
calculate_backoff_delay(attempt, c, j) ==
    LET d == capped_delay(attempt, c)
    IN  Max(0, IF c.jitter THEN 4 * d + j ELSE 4 * d)

BackoffIdle ==
    backoff = [base_delay_seconds |-> 1, max_delay_seconds |-> 1,
               exponential_base |-> 1, jitter |-> FALSE, attempt |-> 0,
               computed |-> FALSE, delay |-> 0]

BackoffInit ==
    backoff \in [base_delay_seconds : 1..MaxBase,
                 max_delay_seconds : 1..MaxCap,
                 exponential_base : 1..MaxBase,
                 jitter : BOOLEAN,
                 attempt : 0..MaxAttempt,
                 computed : {FALSE},
                 delay : {0}]

\* "delay = _calculate_backoff_delay(attempt, retry_config)" of the retry loop
Backoff(j) ==
    /\ ~backoff.computed
    /\ j \in -capped_delay(backoff.attempt, backoff)
              ..capped_delay(backoff.attempt, backoff)
    /\ backoff' = [backoff EXCEPT
                     !.computed = TRUE,
                     !.delay = calculate_backoff_delay(backoff.attempt, backoff, j)]
    /\ UNCHANGED <<ctlVars, spawnVars, store, taskdoc>>

NextBackoff == \E j \in -MaxCap..MaxCap : Backoff(j)

\* ---------------------------------------------------------- SessionTracker

\* the processes that hold a SessionTracker on one session id: the Stop hook
\* inside spawn_isolated_iteration and ralph-context-tracker.py
Writers == {1, 2}

\* the fresh state of _load_or_create; file_changes of one path
NewLedger == [original_goal |-> "", iterations |-> <<>>, file_changes |-> <<>>]

NoTracker == [open |-> FALSE, state |-> NewLedger]

\* SessionTracker._load_or_create: the file's content when the file exists
load_or_create(file) == IF file.exists THEN file.state ELSE NewLedger

\* record_iteration: iteration_num = len(self.state["iterations"]) + 1
next_number_from_zero(iterations) == Len(iterations)
next_number(iterations) == Len(iterations) + 1

set_goal(st, goal) == [st EXCEPT !.original_goal = goal]

\* tag stands for the approach / result / lesson texts of the call
record_iteration(st, tag) ==
    [st EXCEPT !.iterations =
        Append(@, [number |-> next_number(st.iterations), tag |-> tag])]

\* tag stands for the type / details texts of the call
record_file_change(st, tag) ==
    [st EXCEPT !.file_changes =
        Append(@, [iteration |-> Len(st.iterations) + 1, tag |-> tag])]

\* SessionTracker._save after a call has changed self.state to st: the whole
\* state replaces the file, or open() raises IOError, which is swallowed.
\* acked remembers the calls whose save succeeded.
save(w, st, ok, tag) ==
    store' = [store EXCEPT
                !.trackers[w].state = st,
                !.file = IF ok THEN [exists |-> TRUE, state |-> st] ELSE @,
                !.ops = @ + 1,
                !.acked = IF ok /\ tag # 0 THEN @ \cup {tag} ELSE @]

\* SessionTracker(session_id) / get_session_tracker in process w
OpenTracker(w) ==
    /\ ~store.trackers[w].open
    /\ store' = [store EXCEPT
          !.trackers[w] = [open |-> TRUE, state |-> load_or_create(store.file)],
          !.overlap = @ \/ \E u \in Writers : store.trackers[u].open]
    /\ UNCHANGED <<ctlVars, spawnVars, backoff, taskdoc>>

SetGoal(w, ok) ==
    /\ store.trackers[w].open
    /\ store.ops < MaxOps
    /\ save(w, set_goal(store.trackers[w].state, "goal"), ok, 0)
    /\ UNCHANGED <<ctlVars, spawnVars, backoff, taskdoc>>

RecordIteration(w, ok) ==
    /\ store.trackers[w].open
    /\ store.ops < MaxOps
    /\ save(w, record_iteration(store.trackers[w].state, store.ops + 1), ok,
            store.ops + 1)
    /\ UNCHANGED <<ctlVars, spawnVars, backoff, taskdoc>>

RecordFileChange(w, ok) ==
    /\ store.trackers[w].open
    /\ store.ops < MaxOps
    /\ save(w, record_file_change(store.trackers[w].state, store.ops + 1), ok,
            store.ops + 1)
    /\ UNCHANGED <<ctlVars, spawnVars, backoff, taskdoc>>

\* process w exits and its SessionTracker with it
CloseTracker(w) ==
    /\ store.trackers[w].open
    /\ store' = [store EXCEPT
          !.trackers[w] = NoTracker,
          !.overlap = @ /\ \E u \in Writers \ {w} : store.trackers[u].open]
    /\ UNCHANGED <<ctlVars, spawnVars, backoff, taskdoc>>

StoreInit ==
    store = [file |-> [exists |-> FALSE, state |-> NewLedger],
             trackers |-> [w \in Writers |-> NoTracker],
             ops |-> 0, acked |-> {}, overlap |-> FALSE]

NextLedger ==
    \/ \E w \in Writers : OpenTracker(w)
    \/ \E w \in Writers, ok \in BOOLEAN : SetGoal(w, ok)
    \/ \E w \in Writers, ok \in BOOLEAN : RecordIteration(w, ok)
    \/ \E w \in Writers, ok \in BOOLEAN : RecordFileChange(w, ok)
    \/ \E w \in Writers : CloseTracker(w)

\* ------------------------------------------------------------ task_protocol

\* A text is the sequence of its lines (a string with n newlines has n + 1
\* lines, the empty string is one empty line). Lines are drawn from:
\*   "t"  a line of text, no whitespace at its ends
\*   "h"  a line that starts with "## " and names no section
\*   "e"  an empty line
\*   "s"  a line of spaces
\*   "n"  a line that holds "No file changes"
Lines == {"t", "h", "e", "s"}

EmptyText == <<"e">>

Texts == UNION {[1..n -> Lines] : n \in 1..MaxLines}

\* the section headings that render_task_file writes
Headings ==
    {"## Original Goal", "## Session Story", "## Git-Style Change Summary",
     "## Current State", "## Last Failure (Iteration k)",
     "## What To Try Next", "## Instructions"}

\* the lookahead "\n## " of extract_section: the next line starts with "## "
starts_section(line) == line = "h" \/ line \in Headings

is_space(line) == line \in {"e", "s"}

\* str.strip() on a text: whitespace lines at both ends go
RECURSIVE lstrip(_)
lstrip(text) ==
    IF text = <<>> THEN <<>>
    ELSE IF is_space(Head(text)) THEN lstrip(Tail(text))
    ELSE text

RECURSIVE rstrip(_)
rstrip(text) ==
    IF text = <<>> THEN <<>>
    ELSE IF is_space(text[Len(text)])
    THEN rstrip(SubSeq(text, 1, Len(text) - 1))
    ELSE text

strip(text) ==
    LET t == rstrip(lstrip(text)) IN IF t = <<>> THEN EmptyText ELSE t

\* f"## {name}\n\n{text}"
section(heading, text) == <<heading, "e">> \o text

\* "\n\n".join(sections): one empty line between two sections
RECURSIVE join(_)
join(sections) ==
    IF Len(sections) = 1 THEN Head(sections)
    ELSE Head(sections) \o <<"e">> \o join(Tail(sections))

\* "if task.diff_summary and 'No file changes' not in task.diff_summary"
has_diff(diff_summary) ==
    /\ diff_summary # EmptyText
    /\ \A i \in DOMAIN diff_summary : diff_summary[i] # "n"

\* render_task_file; the YAML front matter is the opaque line "---yaml---"
\* and the meta data travel beside the lines
render_task_file(task) ==
    [metadata |-> task.metadata,
     lines |-> join(
        <<<<"---yaml---">>,
          section("## Original Goal", <<"t">>),
          section("## Session Story", task.session_story)>>
        \o (IF has_diff(task.diff_summary)
            THEN <<section("## Git-Style Change Summary", task.diff_summary)>>
            ELSE <<>>)
        \o <<section("## Current State", task.current_state),
              section("## Last Failure (Iteration k)", task.last_failure),
              section("## What To Try Next", task.what_to_try),
              section("## Instructions", task.instructions)>>)]

\* where the lazy group "(.+?)(?=\n## |\Z)" that starts at line s ends: the
\* first line k whose successor starts a section, or the last line; a group
\* of no character is not a match, so an empty line s alone is passed over
group_ends(body, s) ==
    {k \in s..Len(body) :
        /\ (k = Len(body) \/ starts_section(body[k + 1]))
        /\ ~(k = s /\ body[s] = "e")}

\* the places where "## {name}\n\n(.+?)(?=\n## |\Z)" matches
matches(body, heading) ==
    {i \in 1..(Len(body) - 2) :
        /\ body[i] = heading
        /\ body[i + 1] = "e"
        /\ group_ends(body, i + 2) # {}}

SetMin(S) == CHOOSE x \in S : \A y \in S : x <= y

\* extract_section of parse_task_file: re.search, group(1).strip(), else ""
extract_section(body, heading) ==
    IF matches(body, heading) = {} THEN EmptyText
    ELSE LET i == SetMin(matches(body, heading))
             k == SetMin(group_ends(body, i + 2))
         IN  strip(SubSeq(body, i + 2, k))

parse_task_file(content) ==
    [metadata       |-> content.metadata,
     session_story  |-> extract_section(content.lines, "## Session Story"),
     diff_summary   |-> extract_section(content.lines,
                                        "## Git-Style Change Summary"),
     current_state  |-> extract_section(content.lines, "## Current State"),
     last_failure   |-> extract_section(content.lines,
                                        "## Last Failure (Iteration k)"),
     what_to_try    |-> extract_section(content.lines, "## What To Try Next"),
     instructions   |-> extract_section(content.lines, "## Instructions")]

NoContent == [metadata |-> "meta", lines |-> <<>>]

\* a TaskFile as create_task_file builds it, its story, change summary and
\* failure excerpt drawn
TaskFiles ==
    [metadata : {"meta"}, session_story : Texts,
     diff_summary : {EmptyText, <<"t">>, <<"n">>},
     current_state : {<<"t">>}, last_failure : Texts,
     what_to_try : {<<"t">>}, instructions : {<<"t">>}]

DocIdle ==
    taskdoc = [stage |-> "doc",
               task |-> [metadata |-> "meta", session_story |-> <<"t">>,
                         diff_summary |-> EmptyText, current_state |-> <<"t">>,
                         last_failure |-> <<"t">>, what_to_try |-> <<"t">>,
                         instructions |-> <<"t">>],
               first |-> NoContent, second |-> NoContent]

DocInit ==
    taskdoc \in [stage : {"doc"}, task : TaskFiles,
                 first : {NoContent}, second : {NoContent}]

\* file_path.write_text(render_task_file(task_file))
RenderTask ==
    /\ taskdoc.stage = "doc"
    /\ taskdoc' = [taskdoc EXCEPT !.stage = "rendered",
                                  !.first = render_task_file(taskdoc.task)]
    /\ UNCHANGED <<ctlVars, spawnVars, backoff, store>>

\* parse_task_file on what was written
ParseTask ==
    /\ taskdoc.stage = "rendered"
    /\ taskdoc' = [taskdoc EXCEPT !.stage = "parsed",
                                  !.task = parse_task_file(taskdoc.first)]
    /\ UNCHANGED <<ctlVars, spawnVars, backoff, store>>

\* render_task_file on the parsed TaskFile
RerenderTask ==
    /\ taskdoc.stage = "parsed"
    /\ taskdoc' = [taskdoc EXCEPT !.stage = "rerendered",
                                  !.second = render_task_file(taskdoc.task)]
    /\ UNCHANGED <<ctlVars, spawnVars, backoff, store>>

NextDoc == RenderTask \/ ParseTask \/ RerenderTask

Init == CtlInit /\ SpawnIdle /\ BackoffIdle /\ StoreInit /\ DocIdle

Spec == Init /\ [][Next]_vars

CtlIdle == CtlInit /\ config = [maxIterations |-> 1, enabled |-> TRUE,
                                 inContextThreshold |-> 0]

InitSpawn == SpawnInit /\ CtlIdle /\ BackoffIdle /\ StoreInit /\ DocIdle

SpecSpawn == InitSpawn /\ [][NextSpawn]_vars

InitBackoff == BackoffInit /\ CtlIdle /\ SpawnIdle /\ StoreInit /\ DocIdle

SpecBackoff == InitBackoff /\ [][NextBackoff]_vars

SpecFault == Init /\ [][NextFault]_vars

InitLedger == StoreInit /\ CtlIdle /\ SpawnIdle /\ BackoffIdle /\ DocIdle

SpecLedger == InitLedger /\ [][NextLedger]_vars

InitDoc == DocInit /\ CtlIdle /\ SpawnIdle /\ BackoffIdle /\ StoreInit

SpecDoc == InitDoc /\ [][NextDoc]_vars

\* ------------------------------------------------- claims on the controller

Escalated == ev.kind \in {"stop", "return"} /\ ev.spawn.attempts > 0

InvocationEnded == ev.kind \in {"stop", "return"} /\ ev.decision # "pending"

\* C1: when every execution of the verification command fails, the loop is
\* EXHAUSTED after exactly maxIterations executions and an execution number
\* maxIterations + 1 never happens, the re-run inside an escalation included.
C1_ExhaustedAfterExactlyN ==
    allFailed =>
        /\ execs <= config.maxIterations
        /\ (ev.outcome = "exhausted" => execs = config.maxIterations)

\* C2: after an escalation the decision follows the independent re-run only:
\* a failing re-run gives a block decision with the VerifyState kept, whatever
\* the SpawnResult, and termination is allowed only after a passing re-run,
\* which deletes the VerifyState.
C2_EscalationIndependence ==
    Escalated =>
        /\ (ev.rerun # "pass" => ev.decision = "block" /\ verify_state.present)
        /\ (ev.decision = "allow" => ev.rerun = "pass" /\ ~verify_state.present)
        /\ ev.decision \in {"allow", "block"}

\* the spawned process reported success and the re-run failed: blocked
C2_Witness ==
    /\ Escalated
    /\ ev.spawn.success
    /\ ev.rerun = "fail"
    /\ ev.decision = "block"

\* the spawned process failed and the re-run passed: PASSED
C2_WitnessPass ==
    /\ Escalated
    /\ ~ev.spawn.success
    /\ ev.rerun = "pass"
    /\ ev.outcome = "passed_isolated"

\* C7: the persisted iteration never decreases from one step to the next, and
\* when an invocation ends with the VerifyState present the persisted
\* iteration is at most maxIterations.
C7_IterationInvariant ==
    /\ (ev.pre.present /\ verify_state.present
            => verify_state.iteration >= ev.pre.iteration)
    /\ (InvocationEnded /\ verify_state.present
            => verify_state.iteration <= config.maxIterations)

\* C8: a process is spawned only after a failed verification, with isolation
\* enabled, past the in-context threshold and from a process without the
\* RALPH_SPAWNED marker; the spawned process carries the marker; a controller
\* with the marker answers a failed verification in-context without spawning;
\* so no chain of spawns is deeper than one.
C8_EscalationDepthOne ==
    /\ Len(frames) <= 1
    /\ \A i \in DOMAIN frames :
          /\ frames[i].childEnv
          /\ ~frames[i].env
          /\ frames[i].first # "pass"
          /\ config.enabled
          /\ frames[i].iteration > config.inContextThreshold
    /\ (Escalated =>
          /\ ~ev.spawned
          /\ ev.first \in {"fail", "timeout"}
          /\ config.enabled)
    /\ (ev.kind = "stop" /\ ev.spawned /\ ev.first \in {"fail", "timeout"} =>
          /\ ev.decision = "block"
          /\ ev.spawn.attempts = 0
          /\ Len(frames) = ev.depth)

\* a controller inside a spawned instance, past the threshold, blocked
\* in-context
C8_Witness ==
    /\ ev.kind = "stop"
    /\ ev.spawned
    /\ ev.depth = 1
    /\ ev.outcome = "block_spawned"
    /\ Len(frames) = 1

\* C9: an invocation with stop_hook_active set allows termination at once:
\* no verification run, no spawn, VerifyState and ledger untouched.
C9_ReentryGuard ==
    ev.hook_active =>
        /\ ev.kind = "stop"
        /\ ev.decision = "allow"
        /\ ev.runs = 0
        /\ ev.spawn.attempts = 0
        /\ Len(frames) = ev.depth
        /\ verify_state = ev.pre
        /\ ledger = ev.preLedger

\* the flag was set while a VerifyState with a failed iteration was active
C9_Witness ==
    /\ ev.kind = "stop"
    /\ ev.hook_active
    /\ verify_state.present
    /\ verify_state.iteration >= 1
    /\ verify_state.lastResult = "fail"

\* C10: every process launch of an escalation is admitted by the circuit
\* breaker (can_execute) and its outcome recorded in it (record_success /
\* record_failure).
C10_EscalationSupervised ==
    Escalated => ev.spawn.consulted /\ ev.spawn.recorded

\* C11: when the spawn target binary is missing, the escalation's spawn
\* returns a failure at once, after one attempt and with retries_used = 0, and
\* the circuit breaker has recorded exactly one more failure.
C11_MissingBinary ==
    Escalated /\ ~ev.spawn.launched =>
        /\ ~ev.spawn.success
        /\ ev.spawn.attempts = 1
        /\ ev.spawn.retries_used = 0
        /\ ev.spawn.recorded
        /\ cb.failure_count = 1

\* C14: within one loop activation every invocation and escalation uses one
\* session id, also when the state file carries no sessionId, and the
\* context-tracking hook resolves that id.
C14_OneSessionId ==
    Cardinality(session.used \cup session.tracked) <= 1

\* an invocation that got past the re-entry guard with a VerifyState whose
\* next iteration is within maxIterations
WithinBudget ==
    /\ ev.kind = "stop"
    /\ ~ev.hook_active
    /\ ev.pre.present
    /\ ev.pre.iteration + 1 <= config.maxIterations

\* C12: an invocation within budget runs the verification command, and when
\* the command exits 0 the invocation allows termination (PASSED) with no
\* spawn attempt and the state file deleted at its end.
C12_PassTransition ==
    WithinBudget =>
        /\ ev.runs >= 1
        /\ ev.first \in VerifyResults
        /\ (ev.first = "pass" =>
              /\ ev.outcome = "passed"
              /\ ev.decision = "allow"
              /\ ev.runs = 1
              /\ ev.spawn.attempts = 0
              /\ Len(frames) = ev.depth
              /\ ledger = ev.preLedger
              /\ ~verify_state.present)

\* the verification passed at the last iteration of the budget, isolation
\* enabled and past the threshold, after earlier failures
C12_Witness ==
    /\ WithinBudget
    /\ ev.first = "pass"
    /\ ev.outcome = "passed"
    /\ ev.pre.iteration >= 1
    /\ ev.pre.iteration + 1 = config.maxIterations
    /\ config.enabled
    /\ ev.pre.iteration + 1 > config.inContextThreshold
    /\ ~verify_state.present

\* C13: with isolation disabled and every verification failing, the
\* invocations return block decisions in-context for iteration 1, 2, ...
\* maxIterations (one per invocation, as many as verification runs), never
\* spawn, and the invocation after the last of them is EXHAUSTED.
C13_InContextOnly ==
    ~config.enabled /\ allFailed =>
        /\ frames = <<>>
        /\ ledger = 0
        /\ ev.spawn.attempts = 0
        /\ blocks = execs
        /\ blocks <= config.maxIterations
        /\ (ev.decision = "block" =>
              /\ ev.outcome = "block_incontext"
              /\ verify_state.present
              /\ verify_state.iteration = blocks
              /\ verify_state.iteration = ev.pre.iteration + 1)
        /\ (WithinBudget => ev.decision = "block")
        /\ (ev.outcome = "exhausted" =>
              /\ blocks = config.maxIterations
              /\ ev.decision = "allow"
              /\ ~verify_state.present)
        /\ ( /\ ev.kind = "stop"
             /\ ~ev.hook_active
             /\ ev.pre.present
             /\ ev.pre.iteration = config.maxIterations
             => ev.outcome = "exhausted" )

\* isolation disabled, maxIterations >= 2 blocks in-context, then EXHAUSTED
C13_Witness ==
    /\ ~config.enabled
    /\ allFailed
    /\ config.maxIterations >= 2
    /\ config.inContextThreshold = 0
    /\ ev.outcome = "exhausted"
    /\ blocks = config.maxIterations
    /\ execs = config.maxIterations

\* C19: a failed write of the verification state file or of the ledger
\* does not change the decision of the invocation: after a failed
\* verification it still blocks (or escalates, and then follows the re-run),
\* after a passed one it allows.
C19_WriteFailureIgnored ==
    ev.kind \in {"stop", "return"} /\ ev.runs >= 1 =>
        /\ (ev.first = "pass" => ev.decision = "allow")
        /\ (ev.first # "pass" /\ ev.spawn.attempts = 0
                => ev.decision \in {"block", "pending"})
        /\ (ev.first # "pass" /\ ev.spawn.attempts > 0
                => ev.decision = IF ev.rerun = "pass" THEN "allow"
                                                    ELSE "block")

\* C20: when the loop reaches a terminal state (PASSED, directly or after an
\* escalation, or EXHAUSTED) no persisted ledger of the loop remains.
C20_LedgerCleared ==
    ev.outcome \in {"passed", "passed_isolated", "exhausted"} => ledger = 0

\* C22: an invocation that finds a stored iteration with iteration + 1 above
\* maxIterations runs no verification and spawns nothing: it deletes the
\* VerifyState and allows termination (EXHAUSTED), whatever the command
\* would return now.
C22_ExhaustionPrecedence ==
    /\ ev.kind = "stop"
    /\ ~ev.hook_active
    /\ ev.pre.present
    /\ ev.pre.iteration + 1 > config.maxIterations
    => /\ ev.outcome = "exhausted"
       /\ ev.decision = "allow"
       /\ ev.runs = 0
       /\ ev.first = "none"
       /\ ev.spawn.attempts = 0
       /\ Len(frames) = ev.depth
       /\ ledger = ev.preLedger
       /\ ~verify_state.present

\* EXHAUSTED at stored iteration maxIterations, after a failed verification
C22_Witness ==
    /\ ev.kind = "stop"
    /\ ev.outcome = "exhausted"
    /\ ev.pre.present
    /\ ev.pre.iteration = config.maxIterations
    /\ ev.pre.lastResult = "fail"
    /\ ~verify_state.present

\* C23: an escalation at iteration k whose re-run fails ends in a block
\* decision with iteration k + 1 persisted; the invocation that follows
\* evaluates k + 2, and is EXHAUSTED when k + 2 is above maxIterations (so
\* always when k = maxIterations).
C23_FailedEscalationCostsTwo ==
    [][ /\ ( /\ Len(frames') < Len(frames)
             /\ ev'.rerun # "pass"
             => /\ ev'.decision = "block"
                /\ verify_state'.present
                /\ verify_state'.iteration
                      = frames[Len(frames)].iteration + 1 )
        /\ ( /\ execs' > execs
             /\ ev'.kind = "stop"
             /\ ev'.spawn.attempts > 0
             /\ ev'.rerun # "pass"
             => /\ ev'.decision = "block"
                /\ verify_state'.present
                /\ verify_state'.iteration = verify_state.iteration + 2 )
        /\ ( /\ ev.outcome = "block_isolated"
             /\ ev' # ev
             /\ ev'.kind = "stop"
             /\ ~ev'.hook_active
             => IF verify_state.iteration + 1 > config.maxIterations
                THEN ev'.outcome = "exhausted"
                ELSE /\ ev'.runs >= 1
                     /\ (ev'.decision = "block" /\ ev'.spawn.attempts = 0
                           => verify_state'.iteration
                                 = verify_state.iteration + 1) )
      ]_vars

\* the escalation was made at k = maxIterations, its re-run failed, and the
\* invocation after it found maxIterations + 1 stored and was EXHAUSTED
C23_Witness ==
    /\ ev.kind = "stop"
    /\ ev.outcome = "exhausted"
    /\ ev.pre.present
    /\ ev.pre.iteration = config.maxIterations + 1

\* C28: every way the spawned process can fail (missing binary, timeout,
\* non-zero exit, another exception) reaches the controller as a SpawnResult
\* with success = FALSE, and the controller decides from the re-run; an
\* exception raised in the escalation step ends the invocation with an
\* in-context block decision and the VerifyState kept, never with termination
\* allowed.
C28_SpawnErrorsAbsorbed ==
    /\ (Escalated =>
          /\ (ev.spawn.timed_out \/ ~ev.spawn.launched => ~ev.spawn.success)
          /\ ev.outcome \in {"passed_isolated", "block_isolated"}
          /\ ev.rerun \in VerifyResults)
    /\ ( /\ ev.kind = "stop"
         /\ ev.decision # "pending"
         /\ ev.spawn.attempts = 0
         /\ ledger > ev.preLedger
         => /\ ev.outcome = "block_fallback"
            /\ ev.decision = "block"
            /\ verify_state.present
            /\ verify_state.iteration = ev.pre.iteration + 1 )
    /\ (ev.outcome = "block_fallback" =>
          /\ ev.decision = "block"
          /\ ev.first \in {"fail", "timeout"}
          /\ ev.spawn.attempts = 0
          /\ Len(frames) = ev.depth
          /\ verify_state.present)
    /\ (WithinBudget /\ ev.first # "pass" /\ ev.decision = "allow"
          => ev.rerun = "pass")

\* the escalation step raised after the ledger record was written: blocked
C28_Witness ==
    /\ ev.kind = "stop"
    /\ ev.outcome = "block_fallback"
    /\ ledger = ev.preLedger + 1
    /\ ev.decision = "block"
    /\ verify_state.present

\* the spawned process timed out: a SpawnResult without success came back
\* and the re-run decided
C28_WitnessTimeout ==
    /\ Escalated
    /\ ev.kind = "return"
    /\ ev.spawn.timed_out
    /\ ~ev.spawn.success
    /\ ev.outcome = "block_isolated"

\* C29: an invocation that started with an active VerifyState, got past the
\* re-entry guard and ended without a block decision ended PASSED or
\* EXHAUSTED with the VerifyState deleted; a failed verification within budget
\* always yields a block decision.
C29_TerminalOnly ==
    /\ InvocationEnded
    /\ ~ev.hook_active
    /\ (ev.kind = "stop" => ev.pre.present)
    /\ ev.decision # "block"
    => /\ ev.outcome \in {"passed", "passed_isolated", "exhausted"}
       /\ ~verify_state.present

\* ------------------------------------------- claims on the supervised spawn

RecoveryPending == now - cb.last_failure_time < cfg.recovery_timeout_seconds

\* C3: once failure_threshold consecutive failures are recorded, and for every
\* call made while the breaker is OPEN, a call that reaches the breaker check
\* before the recovery timeout has elapsed is rejected without a launch.
C3_FailFast ==
    [][\A t \in Tasks :
         ( /\ tasks[t].pc = "ready"
           /\ tasks'[t].pc # "ready"
           /\ (consec >= cfg.failure_threshold \/ cb.state = "open")
           /\ RecoveryPending )
         => /\ tasks'[t].pc = "done"
            /\ tasks'[t].result = "circuit_open"
            /\ tasks'[t].launches = tasks[t].launches
            /\ cb' = cb]_vars

\* a call was rejected with no launch while the breaker is OPEN after
\* failure_threshold consecutive failures, recovery timeout not elapsed
C3_Witness ==
    \E t \in Tasks :
        /\ tasks[t].pc = "done"
        /\ tasks[t].result = "circuit_open"
        /\ tasks[t].launches = 0
        /\ cb.state = "open"
        /\ consec >= cfg.failure_threshold
        /\ RecoveryPending

\* C17: in the supervised spawn a process whose attempt timed out has been
\* killed and has exited before the attempt ends (before the failure is
\* recorded, the backoff starts or the call returns); a call that returns on a
\* timed-out attempt leaves no process of that attempt running and returns
\* timed_out = TRUE with empty output.
C17_TimeoutReaped ==
    \A t \in Tasks :
        /\ (tasks[t].pc = "killing" => tasks[t].proc = "killed")
        /\ (tasks[t].last = "timeout" /\ tasks[t].pc \in {"sleeping", "done"}
                => tasks[t].proc = "exited")
        /\ (tasks[t].pc = "done" /\ tasks[t].result = "timeout" =>
                /\ tasks[t].proc = "exited"
                /\ async_result(tasks[t].result).timed_out
                /\ ~async_result(tasks[t].result).success
                /\ async_result(tasks[t].result).output = "")

\* a call retried after a timeout and returned on a second timeout
C17_Witness ==
    \E t \in Tasks :
        /\ tasks[t].pc = "done"
        /\ tasks[t].result = "timeout"
        /\ tasks[t].launches = 2
        /\ tasks[t].retries_used = 1
        /\ tasks[t].proc = "exited"

C4_HalfOpenSingleProbe ==
    cfg.half_open_max_calls = 1 => Cardinality(probing) <= 1

\* C5: a call launches at most max_retries + 1 processes; a successful attempt
\* ends the call at once; a call whose attempts are exhausted returns the last
\* failure with retries_used = max_retries.
C5_RetryBound ==
    \A t \in Tasks :
        /\ tasks[t].launches <= cfg.max_retries + 1
        /\ tasks[t].attempt <= cfg.max_retries
        /\ (tasks[t].last = "exit0" =>
                tasks[t].pc = "done" /\ tasks[t].result = "success")
        /\ ( /\ tasks[t].pc = "done"
             /\ tasks[t].attempt = cfg.max_retries
             /\ tasks[t].result \notin {"success", "circuit_open"}
             => /\ tasks[t].retries_used = cfg.max_retries
                /\ tasks[t].result = tasks[t].last )

\* every attempt of a call with max_retries >= 1 was launched and failed, the
\* last one by timeout
C5_Witness ==
    \E t \in Tasks :
        /\ cfg.max_retries >= 1
        /\ tasks[t].pc = "done"
        /\ tasks[t].launches = cfg.max_retries + 1
        /\ tasks[t].result = "timeout"
        /\ tasks[t].retries_used = cfg.max_retries

\* a step in which a call records a success, a failure
SuccessRecorded ==
    \E t \in Tasks : /\ tasks[t].pc = "running"
                     /\ tasks'[t].pc = "done"
                     /\ tasks'[t].result = "success"

FailureRecorded == consec' = consec + 1

\* a call passes the breaker check and is rejected there, or not
Checked(t) == tasks[t].pc = "ready" /\ tasks'[t].pc # "ready"

Rejected(t) ==
    /\ tasks'[t].pc = "done"
    /\ tasks'[t].result = "circuit_open"
    /\ tasks'[t].launches = tasks[t].launches

\* C24: while CLOSED a recorded success resets the failure counter to zero;
\* the breaker goes from CLOSED to OPEN on the failure that makes
\* failure_threshold failures with no success between them, and on no other
\* step.
C24_OpeningRule ==
    [][ /\ (cb.state = "closed" /\ SuccessRecorded
              => cb'.state = "closed" /\ cb'.failure_count = 0)
        /\ (cb.state = "closed" /\ cb'.state # "closed"
              => /\ FailureRecorded
                 /\ cb'.state = "open"
                 /\ consec' = cfg.failure_threshold)
        /\ (cb.state = "closed" /\ FailureRecorded
              => cb'.state = IF consec' >= cfg.failure_threshold
                             THEN "open" ELSE "closed")
      ]_vars

\* failure_threshold = 2: a failure, a success that reset the counter, then
\* two failures in a row opened the breaker
C24_Witness ==
    /\ cfg.failure_threshold = 2
    /\ cb.state = "open"
    /\ cb.failure_count = 2
    /\ consec = 2
    /\ \E t \in Tasks : /\ tasks[t].result = "success"
                        /\ tasks[t].retries_used = 1

\* C25: a HALF_OPEN breaker counts the successes recorded, stays HALF_OPEN
\* and admits calls while fewer than half_open_max_calls are counted, and on
\* the success that completes the count goes to CLOSED with the failure
\* counter at zero.
C25_HalfOpenRecovery ==
    [][ /\ (cb.state = "half_open" /\ SuccessRecorded
              => /\ cb'.half_open_calls = cb.half_open_calls + 1
                 /\ IF cb'.half_open_calls >= cfg.half_open_max_calls
                    THEN cb'.state = "closed" /\ cb'.failure_count = 0
                    ELSE cb'.state = "half_open" /\ cb'.failure_count > 0)
        /\ (cb.state = "half_open" /\ cb'.state = "closed"
              => /\ SuccessRecorded
                 /\ cb'.half_open_calls = cfg.half_open_max_calls)
        /\ (cb.state = "half_open"
              => cb.half_open_calls < cfg.half_open_max_calls)
        /\ \A t \in Tasks :
              cb.state = "half_open" /\ Checked(t) => ~Rejected(t)
      ]_vars

\* half_open_max_calls = 2: the second success of a half-open period closed
\* the breaker
C25_Witness ==
    /\ cfg.half_open_max_calls = 2
    /\ cb.state = "closed"
    /\ cb.half_open_calls = 2
    /\ cb.failure_count = 0

\* C26: a failure recorded while HALF_OPEN re-opens the breaker, whatever the
\* successes counted, and restarts the recovery timeout at that failure:
\* calls checked before it has elapsed are rejected.
C26_HalfOpenFailure ==
    [][ /\ (cb.state = "half_open" /\ FailureRecorded
              => /\ cb'.state = "open"
                 /\ cb'.last_failure_time = now
                 /\ cb'.half_open_calls = cb.half_open_calls)
        /\ \A t \in Tasks :
              ( /\ cb.state = "open"
                /\ RecoveryPending
                /\ Checked(t) )
              => Rejected(t) /\ cb' = cb
      ]_vars

\* half_open_max_calls = 2: one success, then a failure re-opened the
\* breaker, and a call was rejected before the new timeout elapsed
C26_Witness ==
    /\ cfg.half_open_max_calls = 2
    /\ cb.state = "open"
    /\ cb.half_open_calls = 1
    /\ RecoveryPending
    /\ \E t \in Tasks : /\ tasks[t].pc = "done"
                        /\ tasks[t].result = "circuit_open"

\* C27: an OPEN breaker rejects calls until recovery_timeout_seconds have
\* passed since the failure that opened it, and the first query after that
\* moves it to HALF_OPEN and admits the call; outcomes that calls already in
\* flight record while it is OPEN do not move the start of that interval.
C27_RecoveryTimer ==
    [][ /\ ( /\ cb.state = "open"
             /\ \A t \in Tasks : ~Checked(t)
             => /\ cb'.state = "open"
                /\ cb'.last_failure_time = cb.last_failure_time )
        /\ \A t \in Tasks :
              cb.state = "open" /\ Checked(t)
              => IF RecoveryPending
                 THEN Rejected(t) /\ cb' = cb
                 ELSE ~Rejected(t)
      ]_vars

\* C30: the breaker is CLOSED only with failure_count below
\* failure_threshold, and OPEN or HALF_OPEN only with failure_count at or
\* above it.
C30_CounterInvariant ==
    /\ cb.state \in {"closed", "open", "half_open"}
    /\ (cb.state = "closed" => cb.failure_count < cfg.failure_threshold)
    /\ (cb.state \in {"open", "half_open"}
          => cb.failure_count >= cfg.failure_threshold)

\* a success counted in a half-open period that is not over
C30_Witness ==
    /\ cb.state = "half_open"
    /\ cb.half_open_calls = 1
    /\ cb.failure_count >= cfg.failure_threshold

\* ------------------------------------------------ claims on the ledger

Tags(seq) == {seq[i].tag : i \in DOMAIN seq}

Numbered(iterations) ==
    \A i \in DOMAIN iterations : iterations[i].number = i

IsPrefix(a, b) == Len(a) <= Len(b) /\ SubSeq(b, 1, Len(a)) = a

\* C15: with two writers on one ledger, every record whose save succeeded is
\* in the persisted ledger and no two persisted iteration records share a
\* number.
C15_WritersSerialized ==
    LET st == store.file.state IN
    /\ store.acked \subseteq Tags(st.iterations) \cup Tags(st.file_changes)
    /\ \A i, j \in DOMAIN st.iterations :
          st.iterations[i].number = st.iterations[j].number => i = j

C21_RenderParseRender ==
    taskdoc.stage = "rerendered" => taskdoc.second = taskdoc.first

\* --------------------------------------------------- claims on the backoff

Uncapped == backoff.base_delay_seconds
                * Pow(backoff.exponential_base, backoff.attempt)

\* C6 as stated: the delay (quarter seconds) lies within
\* [base * exp^k * (1 - jitter), cap], jitter = 0.25 when enabled, else 0.
C6_DelayWithinClaimedBounds ==
    backoff.computed =>
        /\ backoff.delay >= (IF backoff.jitter THEN 3 ELSE 4) * Uncapped
        /\ backoff.delay <= 4 * backoff.max_delay_seconds

\* C6 amended: with m = min(base * exp^k, cap) the delay lies within
\* [m * (1 - jitter), m * (1 + jitter)], jitter = 0.25 when enabled, else 0;
\* so it never exceeds cap without jitter and 1.25 * cap with jitter.
C6_DelayBounds ==
    backoff.computed =>
        LET m == Min(Uncapped, backoff.max_delay_seconds) IN
        /\ backoff.delay >= (IF backoff.jitter THEN 3 ELSE 4) * m
        /\ backoff.delay <= (IF backoff.jitter THEN 5 ELSE 4) * m
        /\ backoff.delay <= (IF backoff.jitter THEN 5 ELSE 4)
                                * backoff.max_delay_seconds

\* a jittered delay of a capped attempt, above the cap
C6_Witness ==
    /\ backoff.computed
    /\ backoff.jitter
    /\ Uncapped > backoff.max_delay_seconds
    /\ backoff.delay > 4 * backoff.max_delay_seconds

====
